---- MODULE Spec2Model ----
(***************************************************************************)
(* Listor: an array-backed doubly linked list with stable integer handles  *)
(* (src/src/lib.rs).  The container is the record                          *)
(*   [elements, count, head, tail, bounded]                                *)
(* of the struct Listor; elements is the Vec<Node<T>>, kept as a sequence  *)
(* whose position i+1 holds the node at Rust index i.  Every method is an  *)
(* operator from the container (and its arguments) to the container after  *)
(* the call and the value returned; the actions apply the operators.       *)
(***************************************************************************)
EXTENDS Integers, Sequences, FiniteSets, TLC

(* Bound of the model: the arena never holds more than MaxSlots slots. *)
MaxSlots == 3

(* The items pushed.  Listor<T> is generic in T with no trait bound, so no *)
(* method can inspect, compare or combine items: two distinct items are    *)
(* enough to tell any payload from any other.                              *)
Values == {"a", "b"}
Capacities == 0..MaxSlots
Handles == 0..MaxSlots

(* enum Entry<T>, Option<T> and Result<usize, T>. *)
Vacant == <<"Vacant">>
Occupied(item) == <<"Occupied", item>>
None == <<"None">>
Some(x) == <<"Some", x>>
Ok(idx) == <<"Ok", idx>>
Err(item) == <<"Err", item>>
Unit == <<"Unit">>
Panic == <<"Panic">>

IsSome(r) == r[1] = "Some"
IsOk(r) == r[1] = "Ok"
IsErr(r) == r[1] = "Err"

VARIABLES
    elements,   \* Vec<Node<T>>: sequence of [data, prev, next]
    count,      \* number of occupied entries
    head,       \* index of first occupied entry
    tail,       \* index of last occupied entry
    bounded,    \* FALSE if the listor can grow
    panicked,   \* the program aborted in a call
    last,       \* the last call: [op, arg, ret]
    ref,        \* reference deque: sequence of <<handle, value>>
    vacated,    \* handles vacated by remove/pop and not reused, newest first
    maxLen,     \* the largest len() reached so far
    initCap,    \* the capacity the container was constructed with
    pristine,   \* nothing has been removed or cleared since construction
    iterator    \* the Iter borrowed from the container, if one is alive

vars == <<elements, count, head, tail, bounded, panicked, last, ref, vacated,
          maxLen, initCap, pristine, iterator>>

Node(data, prev, next) == [data |-> data, prev |-> prev, next |-> next]

Listor(els, c, h, t, b) ==
    [elements |-> els, count |-> c, head |-> h, tail |-> t, bounded |-> b]

Self == Listor(elements, count, head, tail, bounded)

Min(a, b) == IF a < b THEN a ELSE b
Max(a, b) == IF a > b THEN a ELSE b
SaturatingSub1(i) == IF i = 0 THEN 0 ELSE i - 1

(* Vec::get / Vec::get_mut: Some exactly for an index in range.  At is the *)
(* indexing self.elements[idx], which panics out of range: here it is     *)
(* applied outside the sequence's domain, which stops the evaluation.     *)
InRange(els, idx) == idx \in 0..(Len(els) - 1)
At(els, idx) == els[idx + 1]

SetData(els, idx, d) == [els EXCEPT ![idx + 1].data = d]
SetPrev(els, idx, p) == [els EXCEPT ![idx + 1].prev = p]
SetNext(els, idx, n) == [els EXCEPT ![idx + 1].next = n]

(* The nodes create and clear build: a linear chain 0 -> 1 -> ... -> n-1. *)
FreshElements(capacity) ==
    [k \in 1..capacity |->
        Node(Vacant, SaturatingSub1(k - 1), Min((k - 1) + 1, capacity - 1))]

create(capacity, b) == Listor(FreshElements(capacity), 0, 0, 0, b)

(* Mutant of clear: releases the slots, as Vec::clear would. *)
clear_releases(self, checks) ==
    IF Len(self.elements) = 0 /\ checks
    THEN [self |-> self, ret |-> Panic]
    ELSE [self |-> Listor(<<>>, 0, 0, 0, self.bounded), ret |-> Unit]

(* clear: elements.len() - 1 is a usize subtraction, evaluated before the  *)
(* loop.  With no element it overflows: a panic where overflow checks are  *)
(* on, a wrap to usize::MAX (and a loop that runs zero times) where they   *)
(* are off.  checks tells which build runs.                                *)
clear(self, checks) ==
    IF Len(self.elements) = 0 /\ checks
    THEN [self |-> self, ret |-> Panic]
    ELSE [self |-> Listor(FreshElements(Len(self.elements)), 0, 0, 0, self.bounded),
          ret |-> Unit]

(* Mutant of next_free_idx: looks at the tail slot only, never at the slot *)
(* threaded after it.                                                      *)
next_free_idx_tail_only(self) ==
    IF InRange(self.elements, self.tail)
    THEN IF At(self.elements, self.tail).data = Vacant THEN Some(self.tail) ELSE None
    ELSE None

(* Mutant of next_free_idx: tests tail.next before the tail's own vacancy. *)
next_free_idx_next_first(self) ==
    IF InRange(self.elements, self.tail)
    THEN LET tl == At(self.elements, self.tail) IN
         IF tl.next # self.tail THEN Some(tl.next)
         ELSE IF tl.data = Vacant THEN Some(self.tail)
         ELSE None
    ELSE None

(* A next_free_idx that follows the tail's prev link, to a live slot.      *)
next_free_idx_prev(self) ==
    IF InRange(self.elements, self.tail)
    THEN LET tl == At(self.elements, self.tail) IN
         IF tl.data = Vacant THEN Some(self.tail)
         ELSE IF tl.prev # self.tail THEN Some(tl.prev)
         ELSE None
    ELSE None

next_free_idx(self) ==
    IF InRange(self.elements, self.tail)
    THEN LET tl == At(self.elements, self.tail) IN
         IF tl.data = Vacant THEN Some(self.tail)
         ELSE IF tl.next # self.tail THEN Some(tl.next)
         ELSE None
    ELSE None

(* Mutant of next_vacant_index: forgets the bounded test. *)
next_vacant_index_unbounded(self) ==
    LET free == next_free_idx(self) IN
    IF IsSome(free) THEN Some(free[2]) ELSE Some(Len(self.elements))

next_vacant_index(self) ==
    LET free == next_free_idx(self) IN
    IF IsSome(free) THEN Some(free[2])
    ELSE IF self.bounded THEN None
    ELSE Some(Len(self.elements))

(* Mutant of allocate: the growth branch forgets count += 1. *)
allocate_growth_uncounted(self) ==
    LET free == next_free_idx(self) IN
    IF IsSome(free)
    THEN [self |-> [self EXCEPT !.count = self.count + 1], ret |-> Some(free[2])]
    ELSE IF self.bounded
    THEN [self |-> self, ret |-> None]
    ELSE LET idx == Len(self.elements)
             e1 == IF InRange(self.elements, self.tail)
                   THEN SetNext(self.elements, self.tail, idx)
                   ELSE self.elements
             e2 == Append(e1, Node(Vacant, self.tail, idx))
         IN [self |-> [self EXCEPT !.elements = e2], ret |-> Some(idx)]

(* Mutant of allocate: counts the entry before it knows there is room. *)
allocate_counts_first(self) ==
    LET free == next_free_idx(self)
        s1 == [self EXCEPT !.count = self.count + 1]
    IN IF IsSome(free)
       THEN [self |-> s1, ret |-> Some(free[2])]
       ELSE IF self.bounded
       THEN [self |-> s1, ret |-> None]
       ELSE LET idx == Len(self.elements)
                e1 == IF InRange(self.elements, self.tail)
                      THEN SetNext(self.elements, self.tail, idx)
                      ELSE self.elements
                e2 == Append(e1, Node(Vacant, self.tail, idx))
            IN [self |-> [s1 EXCEPT !.elements = e2], ret |-> Some(idx)]

(* An allocate that never looks at the slots an unbounded container       *)
(* already has.                                                            *)
allocate_always_grows(self) ==
    LET free == next_free_idx(self) IN
    IF self.bounded
    THEN IF IsSome(free)
         THEN [self |-> [self EXCEPT !.count = self.count + 1], ret |-> Some(free[2])]
         ELSE [self |-> self, ret |-> None]
    ELSE LET idx == Len(self.elements)
             e1 == IF InRange(self.elements, self.tail)
                   THEN SetNext(self.elements, self.tail, idx)
                   ELSE self.elements
             e2 == Append(e1, Node(Vacant, self.tail, idx))
         IN [self |-> [self EXCEPT !.elements = e2, !.count = self.count + 1],
             ret |-> Some(idx)]

(* An allocate whose new slot points back at tail while tail does not      *)
(* point at it.                                                            *)
allocate_growth_unlinked(self) ==
    LET free == next_free_idx(self) IN
    IF IsSome(free)
    THEN [self |-> [self EXCEPT !.count = self.count + 1], ret |-> Some(free[2])]
    ELSE IF self.bounded
    THEN [self |-> self, ret |-> None]
    ELSE LET idx == Len(self.elements)
             e2 == Append(self.elements, Node(Vacant, self.tail, idx))
         IN [self |-> [self EXCEPT !.elements = e2, !.count = self.count + 1],
             ret |-> Some(idx)]

allocate(self) ==
    LET free == next_free_idx(self) IN
    IF IsSome(free)
    THEN [self |-> [self EXCEPT !.count = self.count + 1], ret |-> Some(free[2])]
    ELSE IF self.bounded
    THEN [self |-> self, ret |-> None]
    ELSE LET idx == Len(self.elements)
             e1 == IF InRange(self.elements, self.tail)
                   THEN SetNext(self.elements, self.tail, idx)
                   ELSE self.elements
             e2 == Append(e1, Node(Vacant, self.tail, idx))
         IN [self |-> [self EXCEPT !.elements = e2, !.count = self.count + 1],
             ret |-> Some(idx)]

(* Mutant of remove_node: an interior node's predecessor keeps pointing at *)
(* it.                                                                     *)
remove_node_half(els, idx) ==
    LET prev == At(els, idx).prev
        next == At(els, idx).next
    IN CASE prev = idx /\ next = idx -> els
         [] prev # idx /\ next = idx -> SetNext(els, prev, prev)
         [] prev = idx /\ next # idx -> SetPrev(els, next, next)
         [] prev # idx /\ next # idx -> SetPrev(els, next, prev)

remove_node(els, idx) ==
    LET prev == At(els, idx).prev
        next == At(els, idx).next
    IN CASE prev = idx /\ next = idx -> els
         [] prev # idx /\ next = idx -> SetNext(els, prev, prev)
         [] prev = idx /\ next # idx -> SetPrev(els, next, next)
         [] prev # idx /\ next # idx -> SetPrev(SetNext(els, prev, next), next, prev)

(* An insert_between that leaves the successor pointing back at its old   *)
(* predecessor.                                                            *)
insert_between_one_way(els, idx, prev, next) ==
    LET e2 == SetNext(els, idx, next)
        e3 == SetPrev(e2, idx, prev)
    IN SetNext(e3, prev, idx)

insert_between(els, idx, prev, next) ==
    LET e1 == SetPrev(els, next, idx)
        e2 == SetNext(e1, idx, next)
        e3 == SetPrev(e2, idx, prev)
    IN SetNext(e3, prev, idx)

insert_before(els, idx, next) ==
    LET prev == At(els, next).prev IN
    IF prev = next
    THEN LET e1 == SetPrev(els, next, idx)
             e2 == SetNext(e1, idx, next)
         IN SetPrev(e2, idx, idx)
    ELSE insert_between(els, idx, prev, next)

insert_after(els, idx, prev) ==
    LET next == At(els, prev).next IN
    IF prev = next
    THEN LET e1 == SetNext(els, prev, idx)
             e2 == SetPrev(e1, idx, next)
         IN SetNext(e2, idx, idx)
    ELSE insert_between(els, idx, prev, next)

(* Mutant of push_back: stores the item at the old tail. *)
push_back_at_old_tail(self, item) ==
    LET a == allocate(self) IN
    IF IsSome(a.ret)
    THEN LET idx == a.ret[2] IN
         [self |-> [a.self EXCEPT !.tail = idx,
                                  !.elements = SetData(a.self.elements, self.tail, Occupied(item))],
          ret |-> Ok(idx)]
    ELSE [self |-> a.self, ret |-> Err(item)]

push_back(self, item) ==
    LET a == allocate(self) IN
    IF IsSome(a.ret)
    THEN LET idx == a.ret[2] IN
         [self |-> [a.self EXCEPT !.tail = idx,
                                  !.elements = SetData(a.self.elements, idx, Occupied(item))],
          ret |-> Ok(idx)]
    ELSE [self |-> a.self, ret |-> Err(item)]

(* Mutant of push_front: relinks the node but leaves head where it was. *)
push_front_keeps_head(self, item) ==
    LET a == allocate(self) IN
    IF IsSome(a.ret)
    THEN LET idx == a.ret[2]
             e1 == SetData(a.self.elements, idx, Occupied(item))
         IN IF idx # a.self.head
            THEN [self |-> [a.self EXCEPT
                              !.elements = insert_before(remove_node(e1, idx), idx, a.self.head)],
                  ret |-> Ok(idx)]
            ELSE [self |-> [a.self EXCEPT !.elements = e1], ret |-> Ok(idx)]
    ELSE [self |-> a.self, ret |-> Err(item)]

push_front(self, item) ==
    LET a == allocate(self) IN
    IF IsSome(a.ret)
    THEN LET idx == a.ret[2]
             e1 == SetData(a.self.elements, idx, Occupied(item))
         IN IF idx # a.self.head
            THEN [self |-> [a.self EXCEPT
                              !.elements = insert_before(remove_node(e1, idx), idx, a.self.head),
                              !.head = idx],
                  ret |-> Ok(idx)]
            ELSE [self |-> [a.self EXCEPT !.elements = e1], ret |-> Ok(idx)]
    ELSE [self |-> a.self, ret |-> Err(item)]

(* Mutant of remove: count -= 1 is done for a vacant slot too. *)
remove_counts_vacant(self, idx) ==
    IF InRange(self.elements, idx)
    THEN LET node == At(self.elements, idx)
             e1 == SetData(self.elements, idx, Vacant)
         IN IF node.data = Vacant
            THEN [self |-> [self EXCEPT !.elements = e1, !.count = self.count - 1],
                  ret |-> None]
            ELSE LET s1 ==
                        IF self.head # self.tail
                        THEN IF idx = self.tail
                             THEN [self EXCEPT !.elements = e1, !.tail = node.prev]
                             ELSE LET hd == IF idx = self.head THEN node.next ELSE self.head
                                  IN [self EXCEPT
                                        !.head = hd,
                                        !.elements = insert_after(remove_node(e1, idx), idx, self.tail)]
                        ELSE [self EXCEPT !.elements = e1]
                 IN [self |-> [s1 EXCEPT !.count = s1.count - 1], ret |-> Some(node.data[2])]
    ELSE [self |-> self, ret |-> None]

(* A remove that leaves tail on the slot it has just vacated.               *)
remove_tail_stays(self, idx) ==
    IF InRange(self.elements, idx)
    THEN LET node == At(self.elements, idx)
             e1 == SetData(self.elements, idx, Vacant)
         IN IF node.data = Vacant
            THEN [self |-> [self EXCEPT !.elements = e1], ret |-> None]
            ELSE LET s1 ==
                        IF self.head # self.tail
                        THEN IF idx = self.tail
                             THEN [self EXCEPT !.elements = e1]
                             ELSE LET hd == IF idx = self.head THEN node.next ELSE self.head
                                  IN [self EXCEPT
                                        !.head = hd,
                                        !.elements = insert_after(remove_node(e1, idx), idx, self.tail)]
                        ELSE [self EXCEPT !.elements = e1]
                 IN [self |-> [s1 EXCEPT !.count = s1.count - 1], ret |-> Some(node.data[2])]
    ELSE [self |-> self, ret |-> None]

remove(self, idx) ==
    IF InRange(self.elements, idx)
    THEN LET node == At(self.elements, idx)
             e1 == SetData(self.elements, idx, Vacant)
         IN IF node.data = Vacant
            THEN [self |-> [self EXCEPT !.elements = e1], ret |-> None]
            ELSE LET s1 ==
                        IF self.head # self.tail
                        THEN IF idx = self.tail
                             THEN [self EXCEPT !.elements = e1, !.tail = node.prev]
                             ELSE LET hd == IF idx = self.head THEN node.next ELSE self.head
                                  IN [self EXCEPT
                                        !.head = hd,
                                        !.elements = insert_after(remove_node(e1, idx), idx, self.tail)]
                        ELSE [self EXCEPT !.elements = e1]
                 IN [self |-> [s1 EXCEPT !.count = s1.count - 1], ret |-> Some(node.data[2])]
    ELSE [self |-> self, ret |-> None]

pop_back(self) == remove(self, self.tail)

pop_front(self) == remove(self, self.head)

len(self) == self.count

get(self, idx) ==
    IF InRange(self.elements, idx)
    THEN LET d == At(self.elements, idx).data IN
         IF d = Vacant THEN None ELSE Some(d[2])
    ELSE None

get_mut(self, idx) ==
    IF InRange(self.elements, idx)
    THEN LET d == At(self.elements, idx).data IN
         IF d = Vacant THEN None ELSE Some(d[2])
    ELSE None

(* What the caller can do with the &mut T that get_mut and index_mut hand  *)
(* out: *r = item stores item in the slot in place.  There is no           *)
(* reference, and nothing to write to, when the slot is not occupied.      *)
assign(self, idx, item) ==
    IF IsSome(get_mut(self, idx))
    THEN [self EXCEPT !.elements = SetData(self.elements, idx, Occupied(item))]
    ELSE self

(* A peek that looks at the wrong end.                                     *)
peek_back_at_head(self) == get(self, self.head)

peek_front(self) == get(self, self.head)

peek_back(self) == get(self, self.tail)

(* What container[idx] evaluates to: a reference to the value.             *)
Ref(x) == <<"Ref", x>>

(* An index operator that reads the slot after the one it was asked for.   *)
index_off_by_one(self, idx) ==
    LET g == get(self, idx + 1) IN
    IF IsSome(g) THEN Ref(g[2]) ELSE Panic

(* Index::index: get(index).expect("Out of bounds access").                *)
index(self, idx) ==
    LET g == get(self, idx) IN
    IF IsSome(g) THEN Ref(g[2]) ELSE Panic

(* IndexMut::index_mut: get_mut(index).expect("Out of bounds access").     *)
index_mut(self, idx) ==
    LET g == get_mut(self, idx) IN
    IF IsSome(g) THEN Ref(g[2]) ELSE Panic

(* An iterator that starts at the wrong end of the live chain.             *)
iter_at_tail(self) == [current |-> self.tail]

(* Iter: iter() starts at head; next() steps to node.next, or to len()    *)
(* when the node is the end of its chain, and yields the node's data       *)
(* when it is occupied.                                                    *)
iter(self) == [current |-> self.head]

Iter_next(self, it) ==
    IF InRange(self.elements, it.current)
    THEN LET node == At(self.elements, it.current)
             cur == IF node.next = it.current THEN len(self) ELSE node.next
         IN [it |-> [current |-> cur],
             ret |-> IF node.data = Vacant THEN None ELSE Some(node.data[2])]
    ELSE [it |-> it, ret |-> None]

(* What a fresh iterator yields up to its first None, as <<handle, value>>  *)
(* pairs (the handle is the slot the value was read from).                  *)
RECURSIVE IterCollect(_, _, _)
IterCollect(self, it, fuel) ==
    IF fuel = 0 THEN <<>>
    ELSE LET r == Iter_next(self, it) IN
         IF IsSome(r.ret)
         THEN <<(<<it.current, r.ret[2]>>)>> \o IterCollect(self, r.it, fuel - 1)
         ELSE <<>>

LiveOrder(self) == IterCollect(self, iter(self), Len(self.elements) + 1)

(***************************************************************************)
(* The state machine.                                                      *)
(***************************************************************************)
(* A call as last records it.  prior is kept for a push only: the item the *)
(* call just before it removed from the slot the push then returned, if    *)
(* that is what happened.                                                  *)
CallPush(op, arg, ret, prior) == [op |-> op, arg |-> arg, ret |-> ret, prior |-> prior]
Call(op, arg, ret) == CallPush(op, arg, ret, None)

(* No Iter is alive: a call taking &mut self ends every borrow of the      *)
(* container.                                                              *)
NoIter == [alive |-> FALSE, current |-> 0, ended |-> FALSE, yielded |-> <<>>]

NoArg == 0 - 1

Commit(self) ==
    /\ elements' = self.elements
    /\ count' = self.count
    /\ head' = self.head
    /\ tail' = self.tail
    /\ bounded' = self.bounded

Without(seq, h) == SelectSeq(seq, LAMBDA x : x # h)
WithoutHandle(seq, h) == SelectSeq(seq, LAMBDA p : p[1] # h)
Front(seq) == SubSeq(seq, 1, Len(seq) - 1)

Init ==
    \E capacity \in Capacities, b \in BOOLEAN :
        /\ elements = create(capacity, b).elements
        /\ count = create(capacity, b).count
        /\ head = create(capacity, b).head
        /\ tail = create(capacity, b).tail
        /\ bounded = create(capacity, b).bounded
        /\ panicked = FALSE
        /\ last = Call("create", capacity, Unit)
        /\ ref = <<>>
        /\ vacated = <<>>
        /\ maxLen = 0
        /\ initCap = capacity
        /\ pristine = TRUE
        /\ iterator = NoIter

(* A push: the reference deque takes the value at the named end when the   *)
(* container accepted it.                                                  *)
AfterPush(op, item, r, atBack) ==
    /\ Len(r.self.elements) <= MaxSlots
    /\ Commit(r.self)
    /\ last' = CallPush(op, item, r.ret,
                         IF /\ IsOk(r.ret)
                            /\ last.op \in {"remove", "pop_back", "pop_front"}
                            /\ IsSome(last.ret)
                            /\ last.arg = r.ret[2]
                         THEN last.ret ELSE None)
    /\ iterator' = NoIter
    /\ ref' = IF IsOk(r.ret)
              THEN IF atBack THEN Append(ref, <<r.ret[2], item>>)
                             ELSE <<(<<r.ret[2], item>>)>> \o ref
              ELSE ref
    /\ vacated' = IF IsOk(r.ret) THEN Without(vacated, r.ret[2]) ELSE vacated
    /\ maxLen' = Max(maxLen, len(r.self))
    /\ UNCHANGED <<panicked, initCap, pristine>>

PushBack ==
    /\ ~panicked
    /\ \E item \in Values : AfterPush("push_back", item, push_back(Self, item), TRUE)

PushFront ==
    /\ ~panicked
    /\ \E item \in Values : AfterPush("push_front", item, push_front(Self, item), FALSE)

AfterRemove(op, idx, r, ref2) ==
    /\ Commit(r.self)
    /\ last' = Call(op, idx, r.ret)
    /\ ref' = ref2
    /\ vacated' = IF IsSome(r.ret) THEN <<idx>> \o vacated ELSE vacated
    /\ pristine' = (pristine /\ ~IsSome(r.ret))
    /\ iterator' = NoIter
    /\ UNCHANGED <<panicked, maxLen, initCap>>

Remove ==
    /\ ~panicked
    /\ \E idx \in Handles :
          AfterRemove("remove", idx, remove(Self, idx), WithoutHandle(ref, idx))

PopBack ==
    /\ ~panicked
    /\ AfterRemove("pop_back", tail, pop_back(Self),
                   IF ref = <<>> THEN ref ELSE Front(ref))

PopFront ==
    /\ ~panicked
    /\ AfterRemove("pop_front", head, pop_front(Self),
                   IF ref = <<>> THEN ref ELSE Tail(ref))

Clear ==
    /\ ~panicked
    /\ \E checks \in BOOLEAN :
          LET r == clear(Self, checks) IN
          /\ Commit(r.self)
          /\ last' = Call("clear", NoArg, r.ret)
          /\ panicked' = (r.ret = Panic)
          /\ ref' = IF r.ret = Panic THEN ref ELSE <<>>
          /\ vacated' = IF r.ret = Panic THEN vacated ELSE <<>>
          /\ pristine' = (pristine /\ r.ret = Panic)
          /\ iterator' = NoIter
          /\ UNCHANGED <<maxLen, initCap>>

ReadOnly(op, arg, ret) ==
    /\ last' = Call(op, arg, ret)
    /\ UNCHANGED <<elements, count, head, tail, bounded, panicked, ref, vacated,
                   maxLen, initCap, pristine, iterator>>

Get ==
    /\ ~panicked
    /\ \E idx \in Handles : ReadOnly("get", idx, get(Self, idx))

(* The reference deque after the value under handle h was overwritten. *)
SetItem(seq, h, item) ==
    [k \in 1..Len(seq) |-> IF seq[k][1] = h THEN <<h, item>> ELSE seq[k]]

(* The items the caller can leave in slot idx through a &mut T: any, when  *)
(* the slot is occupied; with no reference there is nothing to choose.     *)
Written(idx) == IF IsSome(get_mut(Self, idx)) THEN Values ELSE {"a"}

(* A call that hands out a &mut T (ret is what the call returned), and the *)
(* caller's use of it: the slot ends up holding item, which is a write     *)
(* unless item is what it held.                                            *)
ThroughMut(op, idx, ret, item) ==
    /\ elements' = assign(Self, idx, item).elements
    /\ ref' = SetItem(ref, idx, item)
    /\ last' = Call(op, idx, ret)
    /\ panicked' = (ret = Panic)
    /\ iterator' = NoIter
    /\ UNCHANGED <<count, head, tail, bounded, vacated, maxLen, initCap, pristine>>

GetMut ==
    /\ ~panicked
    /\ \E idx \in Handles :
          \E item \in Written(idx) : ThroughMut("get_mut", idx, get_mut(Self, idx), item)

LenCall ==
    /\ ~panicked
    /\ ReadOnly("len", NoArg, Some(len(Self)))

NextVacantIndex ==
    /\ ~panicked
    /\ ReadOnly("next_vacant_index", NoArg, next_vacant_index(Self))

PeekFront ==
    /\ ~panicked
    /\ ReadOnly("peek_front", NoArg, peek_front(Self))

PeekBack ==
    /\ ~panicked
    /\ ReadOnly("peek_back", NoArg, peek_back(Self))

(* container[idx]: the expect() panics on None.                            *)
Indexed(op, idx, ret) ==
    /\ last' = Call(op, idx, ret)
    /\ panicked' = (ret = Panic)
    /\ UNCHANGED <<elements, count, head, tail, bounded, ref, vacated,
                   maxLen, initCap, pristine, iterator>>

Index ==
    /\ ~panicked
    /\ \E idx \in Handles : Indexed("index", idx, index(Self, idx))

(* &mut container[idx], as in container[idx] = item: the expect() panics   *)
(* on None, before anything is written.                                    *)
IndexMut ==
    /\ ~panicked
    /\ \E idx \in Handles :
          \E item \in Written(idx) : ThroughMut("index_mut", idx, index_mut(Self, idx), item)

(* listor.iter(): a new Iter borrows the container.  The ghost fields      *)
(* ended and yielded record whether next() has returned None yet and what  *)
(* it yielded before that, as <<handle, value>> pairs.                     *)
IterNew ==
    /\ ~panicked
    /\ iterator' = [alive |-> TRUE, current |-> iter(Self).current,
                    ended |-> FALSE, yielded |-> <<>>]
    /\ last' = Call("iter", NoArg, Unit)
    /\ UNCHANGED <<elements, count, head, tail, bounded, panicked, ref, vacated,
                   maxLen, initCap, pristine>>

(* One call of Iter::next on the live iterator.                            *)
IterNext ==
    /\ ~panicked
    /\ iterator.alive
    /\ LET r == Iter_next(Self, [current |-> iterator.current]) IN
       /\ iterator' = [alive |-> TRUE, current |-> r.it.current,
                       ended |-> iterator.ended \/ r.ret = None,
                       yielded |-> IF ~iterator.ended /\ IsSome(r.ret)
                                   THEN Append(iterator.yielded,
                                               <<iterator.current, r.ret[2]>>)
                                   ELSE iterator.yielded]
       /\ last' = Call("next", iterator.current, r.ret)
    /\ UNCHANGED <<elements, count, head, tail, bounded, panicked, ref, vacated,
                   maxLen, initCap, pristine>>

(* The calls that take the container by &mut self and write to it. *)
Mutate ==
    \/ PushBack
    \/ PushFront
    \/ PopBack
    \/ PopFront
    \/ Remove
    \/ Clear

(* The calls that only read the container: a handle looked up, and what   *)
(* the container reports about itself.                                     *)
Read ==
    \/ Get
    \/ LenCall
    \/ NextVacantIndex

(* The calls that look at an end of the container or index it. *)
Look ==
    \/ PeekFront
    \/ PeekBack
    \/ Index

(* The calls that hand out a &mut T, through which the caller overwrites   *)
(* a value in place.                                                       *)
WriteThrough ==
    \/ GetMut
    \/ IndexMut

(* Making an iterator and stepping it. *)
Iterate ==
    \/ IterNew
    \/ IterNext

Next == Mutate

(* The container under its writing calls. *)
Spec == Init /\ [][Next]_vars

NextReads == Mutate \/ Read

(* The container under its writing calls and the calls that only read it;  *)
(* those leave the container as it is.                                     *)
SpecReads == Init /\ [][NextReads]_vars

NextLooks == Mutate \/ Look

(* The container under its writing calls, the peeks and the reading index  *)
(* operator.                                                               *)
SpecLooks == Init /\ [][NextLooks]_vars

NextWrites == Mutate \/ WriteThrough

(* The container under its writing calls and the caller's writes through   *)
(* get_mut and index_mut, which change a payload and nothing else.         *)
SpecWrites == Init /\ [][NextWrites]_vars

NextIter == Mutate \/ Iterate

(* The container under its writing calls and iteration: an Iter lives      *)
(* between two writing calls, which leave the container unborrowed.        *)
SpecIter == Init /\ [][NextIter]_vars

(***************************************************************************)
(* Shared vocabulary of the properties.                                    *)
(***************************************************************************)
Pushes == {"push_back", "push_front"}
Removals == {"remove", "pop_back", "pop_front"}

Full == count = Len(elements)
OccupiedHandles == {h \in Handles : IsSome(get(Self, h))}

(* Every call a caller can make in the current state that writes to the   *)
(* container, with the handle (if any) it is meant to remove.              *)
AllPushes(P(_)) ==
    \A v \in Values : P(push_back(Self, v)) /\ P(push_front(Self, v))
AllRemovals(P(_)) ==
    /\ \A h \in Handles : P(remove(Self, h))
    /\ P(pop_back(Self))
    /\ P(pop_front(Self))

(* C1: run side by side with a reference deque (push_back appends,         *)
(* push_front prepends, pop_back takes the last element, pop_front the     *)
(* first), a pop returns the value the reference returns, and returns None *)
(* exactly when the reference is empty: in every state reached by pushes   *)
(* and pops at both ends, the pop made next agrees with the reference.     *)
C1_DequeRefinement ==
    /\ pop_back(Self).ret = IF ref = <<>> THEN None ELSE Some(ref[Len(ref)][2])
    /\ pop_front(Self).ret = IF ref = <<>> THEN None ELSE Some(ref[1][2])

C1_Witness ==
    /\ last.op = "pop_front"
    /\ IsSome(last.ret)
    /\ Len(ref) >= 2
    /\ ref[1][1] > ref[2][1]
    /\ ref[1][2] # ref[2][2]

(* C2: remove(h) on an occupied handle returns the value stored at h and   *)
(* leaves the front-to-back order of the other values as it was, with that *)
(* one value deleted; the order read back from the container is the order  *)
(* of the reference, in which removals only delete and pushes only add at  *)
(* an end, so it also holds after later pushes.                            *)
C2_RemovePreservesOrder ==
    /\ LiveOrder(Self) = ref
    /\ \A h \in OccupiedHandles :
          LET r == remove(Self, h) IN
          /\ r.ret = get(Self, h)
          /\ LiveOrder(r.self) = WithoutHandle(LiveOrder(Self), h)

C2_Witness ==
    /\ last.op = "remove"
    /\ IsSome(last.ret)
    /\ Len(ref) >= 2
    /\ ref[1][2] # ref[2][2]
    /\ last.arg > ref[1][1]
    /\ last.arg < ref[2][1]

(* C3: a push returns Err exactly when the container is bounded and len()  *)
(* equals the capacity n it was built with, and the Err carries the        *)
(* rejected value; an unbounded container never rejects a push.            *)
C3_ErrIffBoundedFull ==
    AllPushes(LAMBDA r : IsErr(r.ret) <=> (bounded /\ len(Self) = initCap))
        /\ \A v \in Values :
              /\ IsErr(push_back(Self, v).ret) => push_back(Self, v).ret = Err(v)
              /\ IsErr(push_front(Self, v).ret) => push_front(Self, v).ret = Err(v)

C3_Witness ==
    /\ last.op \in Pushes
    /\ last.ret = Err(last.arg)
    /\ bounded
    /\ initCap >= 2
    /\ maxLen = initCap

(* C4: len() is the number of handles for which get returns a value; a     *)
(* successful push raises it by one, a remove or pop that returns a value  *)
(* lowers it by one, and it is never below zero.                           *)
C4_LenCountsOccupied ==
    /\ len(Self) = Cardinality(OccupiedHandles)
    /\ len(Self) >= 0
    /\ AllPushes(LAMBDA r : IsOk(r.ret) => len(r.self) = len(Self) + 1)
    /\ AllRemovals(LAMBDA r :
          IsSome(r.ret) => (len(Self) >= 1 /\ len(r.self) = len(Self) - 1))

C4_Witness ==
    /\ last.op \in Removals
    /\ IsSome(last.ret)
    /\ count = 1
    /\ Len(elements) >= 3

(* What C5 says of one operation: the handles hs keep their values in the  *)
(* container after it.                                                     *)
Kept(after, hs) == \A h \in hs : get(after, h) = get(Self, h)

(* No push at either end (failed or growing the arena) and no remove or    *)
(* pop of another element changes the value at an occupied handle.         *)
KeptByPushesAndRemovals ==
    LET occ == OccupiedHandles IN
    /\ \A i \in 1..Len(ref) : get(Self, ref[i][1]) = Some(ref[i][2])
    /\ \A v \in Values :
          /\ Kept(push_back(Self, v).self, occ)
          /\ Kept(push_front(Self, v).self, occ)
    /\ \A g \in Handles : Kept(remove(Self, g).self, occ \ {g})
    /\ Kept(pop_back(Self).self, occ \ {tail})
    /\ Kept(pop_front(Self).self, occ \ {head})

(* C5 as claimed: the value a push stored under the handle it returned is  *)
(* what get returns for that handle through every later operation that     *)
(* does not remove the handle or clear the container.  A write through     *)
(* get_mut(h) or container[h] = v is such an operation.                    *)
C5_HandleStableUntilRemoved ==
    /\ KeptByPushesAndRemovals
    /\ \A g \in Handles, v \in Values : Kept(assign(Self, g, v), OccupiedHandles)

(* C5 amended: the value get returns for an occupied handle h is the one   *)
(* last stored at h, by the push that returned h or by a later write       *)
(* through get_mut(h) or container[h]; no push at either end (failed or    *)
(* growing the arena), no remove or pop of another element and no write    *)
(* through another handle changes it.                                      *)
C5_HandleStable ==
    /\ KeptByPushesAndRemovals
    /\ \A g \in Handles, v \in Values :
          /\ Kept(assign(Self, g, v), OccupiedHandles \ {g})
          /\ (g \in OccupiedHandles => get(assign(Self, g, v), g) = Some(v))

(* A push_front into a container holding another value, with a vacated    *)
(* slot still pending: the older handle holds the value it held.           *)
C5_Witness ==
    /\ last.op = "push_front"
    /\ IsOk(last.ret)
    /\ vacated # <<>>
    /\ Len(ref) >= 2
    /\ ref[2][2] # last.arg
    /\ ref[2][1] < Head(vacated)
    /\ get(Self, ref[2][1]) = Some(ref[2][2])

(* C6: reclamation is last-in-first-out: while some slot vacated by a      *)
(* remove or pop has not been reused, the next successful push at either   *)
(* end returns the most recently vacated of them, so vacated slots are     *)
(* reused newest first, before any slot never used and without growing     *)
(* the arena.  (clear relinks every slot as unused capacity.)              *)
C6_LifoReclamation ==
    vacated # <<>> =>
        AllPushes(LAMBDA r :
            /\ r.ret = Ok(Head(vacated))
            /\ Len(r.self.elements) = Len(elements))

C6_Witness ==
    /\ last.op \in Pushes
    /\ IsOk(last.ret)
    /\ Len(vacated) = 1
    /\ ~bounded
    /\ initCap = 0
    /\ Len(elements) = 3
    /\ count = 2

(* C7: the arena grows only in unbounded mode, only in a push, by one slot *)
(* and only when every slot is occupied; no call, clear included, reduces  *)
(* the number of slots; a bounded(n) container has exactly n slots; and a  *)
(* container built with new() has as many slots as the largest len() it    *)
(* ever reached.                                                           *)
C7_ArenaGrowth ==
    /\ AllPushes(LAMBDA r :
          /\ Len(r.self.elements) \in {Len(elements), Len(elements) + 1}
          /\ Len(r.self.elements) = Len(elements) + 1 =>
                (~bounded /\ \A h \in 0..(Len(elements) - 1) : IsSome(get(Self, h))))
    /\ AllRemovals(LAMBDA r : Len(r.self.elements) = Len(elements))
    /\ \A checks \in BOOLEAN : Len(clear(Self, checks).self.elements) = Len(elements)
    /\ bounded => Len(elements) = initCap
    /\ (~bounded /\ initCap = 0) => Len(elements) = maxLen
    /\ ~bounded => Len(elements) = Max(initCap, maxLen)

C7_Witness ==
    /\ ~bounded
    /\ initCap = 0
    /\ last.op \in Pushes
    /\ IsOk(last.ret)
    /\ vacated # <<>>
    /\ maxLen = 3
    /\ count = 2

(* C8: a push that fails changes nothing: the container after it (len,     *)
(* head, tail, every slot's links and payload) is the container before it, *)
(* and so is the order iteration reads.                                    *)
C8_FailedPushNoChange ==
    AllPushes(LAMBDA r :
        IsErr(r.ret) => (r.self = Self /\ LiveOrder(r.self) = LiveOrder(Self)))

C8_Witness ==
    /\ last.op \in Pushes
    /\ IsErr(last.ret)
    /\ count >= 2
    /\ head # tail

(* C9: remove, get and get_mut with a handle out of range or of a vacant   *)
(* slot return None, and remove then leaves the container as it was;       *)
(* pop_back and pop_front on an empty container return None and change     *)
(* nothing.                                                                *)
C9_InvalidHandleIsNone ==
    /\ \A h \in Handles \ OccupiedHandles :
          /\ remove(Self, h) = [self |-> Self, ret |-> None]
          /\ get(Self, h) = None
          /\ get_mut(Self, h) = None
    /\ \A h \in Handles : ~InRange(elements, h) => h \notin OccupiedHandles
    /\ (len(Self) = 0 =>
          /\ pop_back(Self) = [self |-> Self, ret |-> None]
          /\ pop_front(Self) = [self |-> Self, ret |-> None])
    /\ (last.op = "get_mut" /\ last.ret = None =>
          /\ ~panicked
          /\ get(Self, last.arg) = None
          /\ assign(Self, last.arg, "a") = Self)

C9_Witness ==
    /\ last.op = "remove"
    /\ last.ret = None
    /\ InRange(elements, last.arg)
    /\ vacated # <<>>
    /\ Head(vacated) = last.arg
    /\ count >= 1

(* C10: next_vacant_index predicts the next insertion: it returns Some(i)  *)
(* exactly when the next push_back and the next push_front would each      *)
(* return Ok(i), and None exactly when the container is bounded and full,  *)
(* which is when the next push would return Err.                           *)
C10_NextVacantPredictsPush ==
    LET n == next_vacant_index(Self) IN
    \A v \in Values :
        LET back == push_back(Self, v).ret
            front == push_front(Self, v).ret
        IN /\ \A i \in 0..Len(elements) :
                 n = Some(i) <=> (back = Ok(i) /\ front = Ok(i))
           /\ n = None <=> (bounded /\ Full)
           /\ n = None <=> (IsErr(back) /\ IsErr(front))
           /\ n # None => n[2] \in 0..Len(elements)

C10_Witness ==
    /\ last.op = "next_vacant_index"
    /\ IsSome(last.ret)
    /\ vacated # <<>>
    /\ last.ret[2] = Head(vacated)
    /\ last.ret[2] # tail
    /\ count >= 1

(***************************************************************************)
(* Vocabulary of the link structure.                                       *)
(***************************************************************************)
(* The slots met by following next from slot from up to slot to, both      *)
(* included; fuel bounds the walk by the number of slots.                  *)
RECURSIVE ChainBetween(_, _, _, _)
ChainBetween(els, from, to, fuel) ==
    IF fuel = 0 \/ ~InRange(els, from) THEN <<>>
    ELSE IF from = to THEN <<from>>
    ELSE <<from>> \o ChainBetween(els, At(els, from).next, to, fuel - 1)

(* The live chain: the slots from head to tail, none when the container is *)
(* empty.                                                                  *)
LiveChain ==
    IF count = 0 THEN <<>> ELSE ChainBetween(elements, head, tail, Len(elements))

IsPrefix(s, t) == Len(s) <= Len(t) /\ SubSeq(t, 1, Len(s)) = s

(***************************************************************************)
(* C11  A fresh iterator, called until its first None, yields exactly the  *)
(* occupied values in live order from head to tail: each once, len() of    *)
(* them, never from a vacant slot, nothing on an empty container.  What    *)
(* the live iterator has yielded before its first None is a prefix of that *)
(* order, and all of it once it has returned None.                         *)
(***************************************************************************)
C11_IterationIsLiveOrder ==
    LET live == LiveOrder(Self) IN
    /\ live = ref
    /\ Len(live) = len(Self)
    /\ [k \in 1..Len(live) |-> live[k][1]] = LiveChain
    /\ \A k \in 1..Len(live) :
          /\ get(Self, live[k][1]) = Some(live[k][2])
          /\ \A j \in 1..Len(live) : live[j][1] = live[k][1] => j = k
    /\ {live[k][1] : k \in 1..Len(live)} = OccupiedHandles
    /\ (len(Self) = 0 => live = <<>>)
    /\ (iterator.alive => IsPrefix(iterator.yielded, live))
    /\ (iterator.alive /\ iterator.ended => iterator.yielded = live)

(* The iterator has run to its first None over two live values that do not *)
(* start at slot 0, with a reclaimed slot threaded after the tail.         *)
C11_Witness ==
    /\ iterator.alive
    /\ iterator.ended
    /\ Len(iterator.yielded) >= 2
    /\ vacated # <<>>
    /\ head # 0

(***************************************************************************)
(* C12  clear() completes in every reachable state of every container,     *)
(* zero slots included; afterwards len() is 0, iteration yields nothing,   *)
(* the number of slots is unchanged, and the container is like a freshly   *)
(* constructed one of that slot count and growth mode: the next pushes     *)
(* return 0, 1, 2, ... and use every existing slot before any growth.      *)
(* With zero slots and overflow checks, elements.len() - 1 panics.         *)
(***************************************************************************)
(* From self, whose first k slots are taken: every push while a slot is    *)
(* left returns handle k and does not grow the arena.                      *)
RECURSIVE ServesInOrder(_, _)
ServesInOrder(self, k) ==
    k < Len(self.elements) =>
        \A atBack \in BOOLEAN :
            LET r == IF atBack THEN push_back(self, "a") ELSE push_front(self, "a") IN
            /\ r.ret = Ok(k)
            /\ Len(r.self.elements) = Len(self.elements)
            /\ ServesInOrder(r.self, k + 1)

ClearedLikeFresh(r) ==
    /\ r.ret = Unit
    /\ len(r.self) = 0
    /\ LiveOrder(r.self) = <<>>
    /\ Len(r.self.elements) = Len(elements)
    /\ r.self = create(Len(elements), bounded)
    /\ ServesInOrder(r.self, 0)

(* C12: clear() completes and leaves a container like a fresh one, with    *)
(* and without overflow checks, in every reachable state.                  *)
C12_ClearCompletesLikeFresh ==
    \A checks \in BOOLEAN : ClearedLikeFresh(clear(Self, checks))

(* The same, for the containers that have a slot.                          *)
ClearWithSlotsLikeFresh ==
    Len(elements) > 0 => \A checks \in BOOLEAN : ClearedLikeFresh(clear(Self, checks))

(***************************************************************************)
(* C13  len() = 0 implies head = tail and no occupied slot at that index;  *)
(* the slot at tail is vacant only when the container is empty, so when    *)
(* len() > 0 the head slot and the tail slot are both occupied.            *)
(***************************************************************************)
C13_EndsOccupiedUnlessEmpty ==
    /\ (len(Self) = 0 => head = tail /\ get(Self, head) = None)
    /\ (InRange(elements, tail) /\ At(elements, tail).data = Vacant => len(Self) = 0)
    /\ (len(Self) > 0 => IsSome(get(Self, head)) /\ IsSome(get(Self, tail)))

(* A removal has emptied a container whose head and tail had moved off     *)
(* slot 0.                                                                 *)
C13_Witness ==
    /\ last.op \in Removals
    /\ IsSome(last.ret)
    /\ len(Self) = 0
    /\ head = tail
    /\ head # 0
    /\ InRange(elements, head)

(***************************************************************************)
(* C14  On a container on which nothing has been removed since it was      *)
(* constructed, the k-th successful push returns handle k - 1, whichever   *)
(* of push_back and push_front it is; with_capacity(n) and bounded(n)      *)
(* serve their first n pushes from the slots they were constructed with,   *)
(* without growth.  In such a state len() pushes have succeeded, so the    *)
(* next successful push is number len() + 1.                               *)
(***************************************************************************)
C14_FreshHandlesCountUp ==
    pristine =>
        /\ AllPushes(LAMBDA r : IsOk(r.ret) => r.ret = Ok(len(Self)))
        /\ (len(Self) < initCap =>
               AllPushes(LAMBDA r : /\ r.ret = Ok(len(Self))
                                    /\ Len(r.self.elements) = initCap))
        /\ Len(elements) = Max(initCap, len(Self))
        /\ (last.op \in Pushes /\ IsOk(last.ret) => last.ret = Ok(len(Self) - 1))
        /\ \A k \in 1..Len(ref) : ref[k][1] < len(Self)

(* The third push on with_capacity(2), a push_front after a push_back,     *)
(* returned handle 2 from a slot the arena grew by.                        *)
C14_Witness ==
    /\ pristine
    /\ initCap = 2
    /\ ~bounded
    /\ last.op = "push_front"
    /\ last.ret = Ok(2)
    /\ Len(ref) = 3
    /\ ref[3][1] = 1

(***************************************************************************)
(* C15  peek_front() returns the first value of the live order and         *)
(* peek_back() the last; both return None exactly when the container is    *)
(* empty; neither changes the container (after a peek, the value it        *)
(* returned is still what a peek returns); and the value a peek shows is   *)
(* the value the matching pop then returns.                                *)
(***************************************************************************)
C15_PeeksShowEnds ==
    LET front == peek_front(Self)
        back == peek_back(Self)
    IN /\ front = (IF ref = <<>> THEN None ELSE Some(ref[1][2]))
       /\ back = (IF ref = <<>> THEN None ELSE Some(ref[Len(ref)][2]))
       /\ (front = None <=> len(Self) = 0)
       /\ (back = None <=> len(Self) = 0)
       /\ pop_front(Self).ret = front
       /\ pop_back(Self).ret = back
       /\ (last.op = "peek_front" => last.ret = front)
       /\ (last.op = "peek_back" => last.ret = back)

(* peek_back has just shown the last of two different values, in a slot    *)
(* that is not the last one of the arena.                                  *)
C15_Witness ==
    /\ last.op = "peek_back"
    /\ IsSome(last.ret)
    /\ Len(ref) >= 2
    /\ peek_front(Self) # last.ret
    /\ tail # Len(elements) - 1

(***************************************************************************)
(* C16  container[h] returns the value get(h) returns when h is occupied,  *)
(* and panics exactly when h is out of range or its slot is vacant; of the *)
(* reading operations only the index operators abort on such a handle.     *)
(***************************************************************************)
C16_IndexPanicsOnInvalid ==
    /\ \A h \in Handles :
          LET g == get(Self, h)
              x == index(Self, h)
              xm == index_mut(Self, h)
          IN /\ (IsSome(g) => x = Ref(g[2]) /\ xm = Ref(g[2]))
             /\ (x = Panic <=> (~InRange(elements, h) \/ At(elements, h).data = Vacant))
             /\ (xm = Panic <=> x = Panic)
             /\ g # Panic
             /\ get_mut(Self, h) # Panic
             /\ Iter_next(Self, [current |-> h]).ret # Panic
    /\ peek_front(Self) # Panic
    /\ peek_back(Self) # Panic
    /\ next_vacant_index(Self) # Panic
    /\ (last.op \in {"index", "index_mut"} =>
           /\ (panicked <=> last.ret = Panic)
           /\ (panicked <=> get(Self, last.arg) = None))
    /\ (panicked => last.op \in {"index", "index_mut", "clear"})

(* container[h] has panicked on a vacant slot of a container that is not   *)
(* empty.                                                                  *)
C16_Witness ==
    /\ last.op = "index"
    /\ last.ret = Panic
    /\ panicked
    /\ InRange(elements, last.arg)
    /\ len(Self) > 0

(***************************************************************************)
(* C17  The links of a container with at least one slot.                   *)
(***************************************************************************)
(* The slots met by following next from slot from until a slot whose next  *)
(* is itself, that slot included; a walk that runs out of fuel or out of   *)
(* the arena stops there.                                                  *)
RECURSIVE WalkFrom(_, _, _)
WalkFrom(els, from, fuel) ==
    IF fuel = 0 \/ ~InRange(els, from) THEN <<>>
    ELSE IF At(els, from).next = from THEN <<from>>
    ELSE <<from>> \o WalkFrom(els, At(els, from).next, fuel - 1)

Slots == 0..(Len(elements) - 1)

(* One chain over the whole arena: indices in range, head first, every     *)
(* slot met exactly once, one end, prev the inverse of next.               *)
OneChain ==
    LET walk == WalkFrom(elements, head, Len(elements) + 1) IN
    /\ head \in Slots
    /\ tail \in Slots
    /\ \A i \in Slots : At(elements, i).prev \in Slots /\ At(elements, i).next \in Slots
    /\ At(elements, head).prev = head
    /\ Len(walk) = Len(elements)
    /\ {walk[k] : k \in 1..Len(walk)} = Slots
    /\ Cardinality({i \in Slots : At(elements, i).next = i}) = 1
    /\ \A i \in Slots :
          At(elements, i).next # i => At(elements, At(elements, i).next).prev = i

(* The occupied slots are the walk from head up to tail, the vacant ones   *)
(* what follows tail.                                                      *)
OccupiedPrefix ==
    LET walk == WalkFrom(elements, head, Len(elements) + 1) IN
    \E k \in 1..Len(walk) :
        /\ walk[k] = tail
        /\ \A j \in 1..Len(walk) : (At(elements, walk[j]).data # Vacant) <=> (j <= k)

(* C17 as claimed: in every reachable state with at least one slot the     *)
(* links form one chain over the whole arena, the occupied slots are       *)
(* exactly its prefix from head to tail and every vacant slot lies after   *)
(* tail.  An empty container with a slot has its vacant head = tail slot   *)
(* in that prefix.                                                         *)
C17_OneChainOccupiedPrefix ==
    Len(elements) > 0 => OneChain /\ OccupiedPrefix

(* C17 amended: in every reachable state with at least one slot the links  *)
(* form one chain over the whole arena; when len() > 0 the occupied slots  *)
(* are exactly its prefix from head to tail and every vacant slot lies     *)
(* after tail; when len() = 0 every slot is vacant and head = tail is the  *)
(* first slot of the chain.                                                *)
C17_OneChainPrefixUnlessEmpty ==
    Len(elements) > 0 =>
        /\ OneChain
        /\ (len(Self) > 0 => OccupiedPrefix)
        /\ (len(Self) = 0 =>
               /\ head = tail
               /\ \A i \in Slots : At(elements, i).data = Vacant)

(* remove(1) took the middle one of three values out of the live chain and *)
(* threaded its slot after the tail.                                       *)
C17_Witness ==
    /\ last.op = "remove"
    /\ last.arg = 1
    /\ IsSome(last.ret)
    /\ Len(elements) = 3
    /\ len(Self) = 2
    /\ head = 0
    /\ tail = 2
    /\ At(elements, tail).next = 1

(***************************************************************************)
(* C18  The slot allocate chooses on a container that is not empty is      *)
(* linked immediately after the current tail (its prev is tail, tail's     *)
(* next is it); on an empty container it is the tail slot itself.          *)
(* push_back then only stores the item and sets tail to that slot: it      *)
(* leaves the links allocate made and never changes head; push_front on a  *)
(* container that is not empty never changes tail.                         *)
(***************************************************************************)
Links(els) == [i \in 1..Len(els) |-> <<els[i].prev, els[i].next>>]

(* C18: allocate's slot follows tail (or is tail when empty); push_back    *)
(* sets tail alone and keeps head; push_front keeps tail unless empty.     *)
C18_AllocatedAfterTail ==
    LET a == allocate(Self) IN
    /\ (IsSome(a.ret) /\ len(Self) > 0 =>
           /\ a.ret[2] # tail
           /\ At(a.self.elements, a.ret[2]).prev = tail
           /\ At(a.self.elements, tail).next = a.ret[2])
    /\ (IsSome(a.ret) /\ len(Self) = 0 => a.ret[2] = tail)
    /\ \A v \in Values :
          LET pb == push_back(Self, v)
              pf == push_front(Self, v)
          IN /\ pb.self.head = head
             /\ (IsOk(pb.ret) =>
                    /\ pb.ret[2] = a.ret[2]
                    /\ pb.self.tail = pb.ret[2]
                    /\ Links(pb.self.elements) = Links(a.self.elements))
             /\ (len(Self) > 0 => pf.self.tail = tail)
    /\ (last.op = "push_back" /\ IsOk(last.ret) => tail = last.ret[2])

(* push_back on a container that was not empty was given the reclaimed     *)
(* slot 0 and made it the tail, the head staying on another slot.          *)
C18_Witness ==
    /\ last.op = "push_back"
    /\ last.ret = Ok(0)
    /\ Len(ref) >= 2
    /\ tail = 0
    /\ head # 0

(***************************************************************************)
(* C19  A push never returns a handle whose slot is occupied, so no two    *)
(* live values share a handle and a handle is handed out again only after  *)
(* its slot was vacated.  Stale handles are not detected: when the call    *)
(* before a push removed a value from the slot the push returned, get of   *)
(* that handle returns the pushed value.                                   *)
(***************************************************************************)
C19_HandleReusedOnlyWhenVacant ==
    /\ AllPushes(LAMBDA r : IsOk(r.ret) => get(Self, r.ret[2]) = None)
    /\ \A j, k \in 1..Len(ref) : ref[j][1] = ref[k][1] => j = k
    /\ (last.op \in Pushes /\ IsSome(last.prior) =>
           /\ IsOk(last.ret)
           /\ get(Self, last.ret[2]) = Some(last.arg))

(* push -> Ok(h), remove(h), push -> Ok(h): the last push returned the     *)
(* handle whose value the call before it removed, and get of that handle   *)
(* now returns the other, newer value beside a value that stayed.          *)
C19_Witness ==
    /\ last.op \in Pushes
    /\ IsOk(last.ret)
    /\ IsSome(last.prior)
    /\ last.prior[2] # last.arg
    /\ get(Self, last.ret[2]) = Some(last.arg)
    /\ len(Self) >= 2

(***************************************************************************)
(* C20  Once Iter::next has returned None, every later call of next on     *)
(* that iterator, over the unchanged container, returns None as well.      *)
(* At the end of the chain next parks current at len(), the number of      *)
(* occupied slots, which is the index of a slot whenever a slot is vacant; *)
(* the call after that reads that slot.                                    *)
(***************************************************************************)
C20_NoneIsFinal ==
    [][(/\ iterator.alive
        /\ iterator.ended
        /\ iterator'.alive
        /\ last'.op = "next") => last'.ret = None]_vars

=============================================================================
